---- MODULE Spec2Model ----
(***************************************************************************)
(* Model of bbq/objects_map/utils/structures.py: DetectionList, a Python   *)
(* list of dict records, and MapObjectList, its subclass with similarity   *)
(* scoring and the serialisation pair.                                     *)
(*                                                                         *)
(* Python objects are references.  A record (dict) lives in the store      *)
(* `heap` and is named by its index; a collection is a sequence of such    *)
(* indices.  The class_id list of a record is itself a mutable object and  *)
(* lives in the store `lists`, so that a deep copy and a shallow copy of   *)
(* a record differ.  A dict is a function whose DOMAIN is its key set.     *)
(***************************************************************************)
EXTENDS Integers, Sequences, FiniteSets, TLC

VARIABLES
  heap,    \* store of records: heap[r] is the dict named by reference r
  lists,   \* store of class_id lists: lists[heap[r].class_id]
  coll,    \* the caller's two collections, coll.A and coll.B
  C,       \* the collection returned by the last `+`
  cmeta,   \* history: what the operands of that `+` were when it ran
  ser,     \* the list of plain dicts last returned by to_serializable
  input,   \* the arguments the caller is about to pass
  call     \* the last call: operation, operands, outcome

vars == <<heap, lists, coll, C, cmeta, ser, input, call>>

----------------------------------------------------------------------------
(* Bounds of the model *)

MaxLen == 2       \* longest collection
MaxArg == 3       \* longest index list or mask passed to a slice
MaxNest == 1      \* longest class_id list while collections are concatenated
MaxVotes == 5     \* votes held by the records of a collection, all together

Names == {"A", "B"}
Classes == {1, 2, 3}      \* class values a vote can hold
InstColors == {<<"rgb", 1, 0>>, <<"rgb", 0, 1>>}   \* values of 'inst_color'
Unpainted == <<"rgb", 0, 0>>                       \* colour of new geometry
\* descriptor vectors: two unit vectors, a zero vector, one of another length
Vectors == {<<1, 0>>, <<0, 1>>, <<0, 0>>, <<1, 0, 1>>}

----------------------------------------------------------------------------
(* Sequences *)

Range(s) == {s[i] : i \in 1..Len(s)}

\* all sequences over S of length at most n
SeqUpTo(S, n) == UNION {[1..k -> S] : k \in 0..n}

\* position of the first occurrence of x in s
IndexOf(s, x) == CHOOSE i \in 1..Len(s) : s[i] = x /\ \A j \in 1..(i-1) : s[j] # x

\* s without repeated elements, in order of first occurrence
RECURSIVE Distinct(_)
Distinct(s) ==
  IF s = <<>> THEN <<>>
  ELSE LET d == Distinct(SubSeq(s, 1, Len(s) - 1))
           x == s[Len(s)]
       IN IF x \in Range(d) THEN d ELSE Append(d, x)

----------------------------------------------------------------------------
(* Python list indexing and deep copy *)

\* self[i] for a list of length n: i is accepted iff -n <= i < n
PyIndexOK(n, i) == -n <= i /\ i < n

\* the 1-based position self[i] reads; a negative i counts from the end
PyIndex(n, i) == IF i < 0 THEN n + i + 1 ELSE i + 1

\* the content of record r with its class_id list read through
DeepVal(h, l, r) ==
  [k \in DOMAIN h[r] |-> IF k = "class_id" THEN l[h[r][k]] ELSE h[r][k]]

\* copy.deepcopy of a list of records: every distinct record is copied once
\* (the memo keeps repeated entries repeated), and so is every list it holds
deepcopy(h, l, self) ==
  LET d == Distinct(self)
      withList == SelectSeq(d, LAMBDA r : "class_id" \in DOMAIN h[r])
      ld == Distinct([k \in 1..Len(withList) |-> h[withList[k]].class_id])
      newList(lr) == Len(l) + IndexOf(ld, lr)
      newRec(r) == Len(h) + IndexOf(d, r)
      copyRec(r) ==
        [k \in DOMAIN h[r] |-> IF k = "class_id" THEN newList(h[r][k]) ELSE h[r][k]]
  IN [heap |-> h \o [k \in 1..Len(d) |-> copyRec(d[k])],
      lists |-> l \o [k \in 1..Len(ld) |-> l[ld[k]]],
      out |-> [j \in 1..Len(self) |-> newRec(self[j])]]

\* copy.copy of the list: a new list holding the same records
shallowcopy(h, l, self) == [heap |-> h, lists |-> l, out |-> self]

----------------------------------------------------------------------------
(* DetectionList: concatenation *)

\* a + whose copy of self is copy.copy: a new list of the same records
add_shallow(h, l, self, other) ==
  LET new_list == shallowcopy(h, l, self)
  IN [heap |-> new_list.heap, lists |-> new_list.lists,
      out |-> new_list.out \o other, ret |-> "new_list"]

\* new_list = copy.deepcopy(self); new_list.extend(other); return new_list
__add__(h, l, self, other) ==
  LET new_list == deepcopy(h, l, self)
  IN [heap |-> new_list.heap, lists |-> new_list.lists,
      out |-> new_list.out \o other, ret |-> "new_list"]

\* a += that builds its result the way + does
iadd_copying(h, l, self, other) == __add__(h, l, self, other)

\* self.extend(other); return self
__iadd__(h, l, self, other) ==
  [heap |-> h, lists |-> l, out |-> self \o other, ret |-> "self"]

----------------------------------------------------------------------------
(* DetectionList: sub-selection *)

\* the 0-based positions of a mask where it is true, ascending
RECURSIVE TruePositions(_)
TruePositions(mask) ==
  IF mask = <<>> THEN <<>>
  ELSE LET rest == TruePositions(SubSeq(mask, 1, Len(mask) - 1))
       IN IF mask[Len(mask)] THEN Append(rest, Len(mask) - 1) ELSE rest

\* a slice by indices that filters: the records at the positions named by
\* index, each once, in the order of the source
slice_by_indices_filter(self, index) ==
  IF \A j \in 1..Len(index) : PyIndexOK(Len(self), index[j])
  THEN [status |-> "ok",
        out |-> SelectSeq(self, LAMBDA r :
                  \E j \in 1..Len(index) : self[PyIndex(Len(self), index[j])] = r)]
  ELSE [status |-> "IndexError", out |-> <<>>]

\* for i in index: new_self.append(self[i]).  self[i] raises IndexError on
\* the first i outside -len..len-1 and the partial new_self is dropped.
slice_by_indices(self, index) ==
  IF \A j \in 1..Len(index) : PyIndexOK(Len(self), index[j])
  THEN [status |-> "ok",
        out |-> [j \in 1..Len(index) |-> self[PyIndex(Len(self), index[j])]]]
  ELSE [status |-> "IndexError", out |-> <<>>]

\* for i, m in enumerate(mask): if m: new_self.append(self[i]).  self[i] is
\* evaluated at the true positions only; enumerate stops with the mask.
slice_by_mask(self, mask) ==
  LET pos == TruePositions(mask)
  IN IF \A j \in 1..Len(pos) : PyIndexOK(Len(self), pos[j])
     THEN [status |-> "ok",
           out |-> [j \in 1..Len(pos) |-> self[PyIndex(Len(self), pos[j])]]]
     ELSE [status |-> "IndexError", out |-> <<>>]

----------------------------------------------------------------------------
(* The aliasing specification: two collections of records, mutated through *)
(* their records and concatenated with + and +=.                           *)

NoCall == [op |-> "none", self |-> "", other |-> "", status |-> "ok", out |-> <<>>,
           ret |-> ""]

NoMeta == [made |-> FALSE, self |-> "", other |-> "", nleft |-> 0, base |-> 0, lbase |-> 0]

\* the records the caller built: those that exist before any + allocates
NumOrig == IF cmeta.made THEN cmeta.base ELSE Len(heap)
NumOrigLists == IF cmeta.made THEN cmeta.lbase ELSE Len(lists)

\* coll.A holds nA fresh records and coll.B nB others, each with a tag that
\* tells it from the others and an empty class_id list of its own
InitAlias ==
  \E nA \in 0..MaxLen, nB \in 0..MaxLen :
    /\ nA + nB <= MaxLen
    /\ heap = [r \in 1..(nA + nB) |-> [tag |-> r, class_id |-> r]]
    /\ lists = [r \in 1..(nA + nB) |-> <<>>]
    /\ coll = [A |-> [i \in 1..nA |-> i], B |-> [i \in 1..nB |-> nA + i]]
    /\ C = <<>>
    /\ cmeta = NoMeta
    /\ ser = <<>>
    /\ input = <<>>
    /\ call = NoCall

\* coll[x][i]['class_id'].append(1): the list inside a record is mutated
AppendVote(x, i) ==
  /\ i \in 1..Len(coll[x])
  /\ Len(lists[heap[coll[x][i]].class_id]) < MaxNest
  /\ lists' = [lists EXCEPT ![heap[coll[x][i]].class_id] = Append(@, 1)]
  /\ call' = [NoCall EXCEPT !.op = "append_vote"]
  /\ UNCHANGED <<heap, coll, C, cmeta, ser, input>>

\* C = coll[x] + coll[y].  The list C named before is dropped; the copies
\* it held are referenced from nowhere else and are freed.
Add(x, y) ==
  /\ LET h0 == SubSeq(heap, 1, NumOrig)
         l0 == SubSeq(lists, 1, NumOrigLists)
         r == __add__(h0, l0, coll[x], coll[y])
     IN /\ heap' = r.heap
        /\ lists' = r.lists
        /\ C' = r.out
        /\ cmeta' = [made |-> TRUE, self |-> x, other |-> y, nleft |-> Len(coll[x]),
                     base |-> Len(h0), lbase |-> Len(l0)]
        /\ call' = [NoCall EXCEPT !.op = "add", !.self = x, !.other = y, !.out = r.out,
                                  !.ret = r.ret]
  /\ UNCHANGED <<coll, ser, input>>

\* coll[x] += coll[y]; the name x is rebound to what __iadd__ returns
IAdd(x, y) ==
  /\ Len(coll[x]) + Len(coll[y]) <= MaxLen
  /\ LET r == __iadd__(heap, lists, coll[x], coll[y])
     IN /\ heap' = r.heap
        /\ lists' = r.lists
        /\ coll' = [coll EXCEPT ![x] = r.out]
        /\ call' = [NoCall EXCEPT !.op = "iadd", !.self = x, !.other = y, !.out = r.out,
                                  !.ret = r.ret]
  /\ UNCHANGED <<C, cmeta, ser, input>>

NextAlias ==
  \/ \E x \in Names, i \in 1..MaxLen : AppendVote(x, i)
  \/ \E x \in Names, y \in Names : Add(x, y)
  \/ \E x \in Names, y \in Names : IAdd(x, y)

SpecAlias == InitAlias /\ [][NextAlias]_vars

\* the records coll.A and coll.B hold
Held == Range(coll.A) \cup Range(coll.B)

\* C1: C = A + B leaves A and B and their records as they were; the first
\* len(A) records of C are new objects, down to their lists, with the content
\* A's records had; the last len(B) entries are B's own records; and no later
\* step (a mutation of a record of A or B, a +=) changes C or the content of
\* its first len(A) records, while its last entries stay B's objects, so what
\* is done to them shows through C.
C1_AddCopiesLeftSharesRight ==
  [][ /\ call'.op = "add" =>
           LET x == call'.self
               y == call'.other
               k == Len(coll[x])
           IN /\ call'.ret = "new_list"
              /\ Len(C') = k + Len(coll[y])
              /\ \A i \in 1..k :
                   /\ DeepVal(heap', lists', C'[i]) = DeepVal(heap, lists, coll[x][i])
                   /\ C'[i] \notin Held
                   /\ heap'[C'[i]].class_id \notin {heap[r].class_id : r \in Held}
              /\ \A j \in 1..Len(coll[y]) : C'[k + j] = coll[y][j]
              /\ coll' = coll
              /\ \A r \in Held : DeepVal(heap', lists', r) = DeepVal(heap, lists, r)
      /\ (call'.op # "add" /\ cmeta.made) =>
           /\ C' = C
           /\ \A i \in 1..cmeta.nleft :
                DeepVal(heap', lists', C[i]) = DeepVal(heap, lists, C[i])
    ]_vars

\* C1 witness: after C = A + B with both operands non-empty, a record of A
\* was mutated and C's copy of it was not, and a record of B was mutated and
\* C's last entry shows it
C1_Witness ==
  /\ cmeta.made /\ cmeta.self = "A" /\ cmeta.other = "B"
  /\ cmeta.nleft >= 1 /\ Len(C) > cmeta.nleft
  /\ lists[heap[coll.A[1]].class_id] # <<>>
  /\ lists[heap[C[1]].class_id] = <<>>
  /\ lists[heap[coll.B[Len(coll.B)]].class_id] # <<>>
  /\ lists[heap[C[Len(C)]].class_id] # <<>>

\* C2: A += B returns A itself; A's entries become its former entries
\* followed by B's entries, the very same records in B's order; nothing is
\* copied or changed in the store, and the other collection is untouched.
C2_IAddExtendsInPlace ==
  [][ call'.op = "iadd" =>
        LET x == call'.self
            y == call'.other
        IN /\ call'.ret = "self"
           /\ Len(coll'[x]) = Len(coll[x]) + Len(coll[y])
           /\ \A i \in 1..Len(coll[x]) : coll'[x][i] = coll[x][i]
           /\ \A j \in 1..Len(coll[y]) : coll'[x][Len(coll[x]) + j] = coll[y][j]
           /\ \A z \in Names \ {x} : coll'[z] = coll[z]
           /\ heap' = heap
           /\ lists' = lists
    ]_vars

\* C2 witness: after A += B with both non-empty, a record of B was mutated
\* and the mutation shows through A's last entry
C2_Witness ==
  /\ call.op = "append_vote"
  /\ Len(coll.A) = 2 /\ Len(coll.B) = 1
  /\ coll.A[2] = coll.B[1]
  /\ lists[heap[coll.A[2]].class_id] # <<>>
  /\ lists[heap[coll.A[1]].class_id] = <<>>

----------------------------------------------------------------------------
(* The slicing specification: a collection and an argument are drawn, and  *)
(* one of the two slices is called with them.                              *)

InitSliceWith(n, kind, arg) ==
  /\ heap = [r \in 1..n |-> [tag |-> r, class_id |-> r]]
  /\ lists = [r \in 1..n |-> <<>>]
  /\ coll = [A |-> [i \in 1..n |-> i], B |-> <<>>]
  /\ C = <<>>
  /\ cmeta = NoMeta
  /\ ser = <<>>
  /\ input = [kind |-> kind, arg |-> arg, self |-> [i \in 1..n |-> i]]
  /\ call = NoCall

InitSlice ==
  \E n \in 0..MaxLen :
    \/ \E index \in SeqUpTo(-(MaxLen + 1)..MaxLen, MaxArg) : InitSliceWith(n, "index", index)
    \/ \E mask \in SeqUpTo(BOOLEAN, MaxArg) : InitSliceWith(n, "mask", mask)

\* coll.A.slice_by_indices(input.arg)
SliceByIndices ==
  /\ call.op = "none"
  /\ input.kind = "index"
  /\ LET r == slice_by_indices(coll.A, input.arg)
     IN call' = [NoCall EXCEPT !.op = "slice_by_indices", !.self = "A",
                               !.status = r.status, !.out = r.out, !.ret = "new_self"]
  /\ UNCHANGED <<heap, lists, coll, C, cmeta, ser, input>>

\* coll.A.slice_by_mask(input.arg)
SliceByMask ==
  /\ call.op = "none"
  /\ input.kind = "mask"
  /\ LET r == slice_by_mask(coll.A, input.arg)
     IN call' = [NoCall EXCEPT !.op = "slice_by_mask", !.self = "A",
                               !.status = r.status, !.out = r.out, !.ret = "new_self"]
  /\ UNCHANGED <<heap, lists, coll, C, cmeta, ser, input>>

NextSlice ==
  \/ SliceByIndices
  \/ SliceByMask

SpecSlice == InitSlice /\ [][NextSlice]_vars

\* number of true values among the first i of a mask
TrueCount(mask, i) == Cardinality({p \in 1..i : mask[p]})

\* what both versions of C7 say of slice_by_mask with a mask as long as the
\* collection, and of the source collection
C7_MaskAndSource ==
  /\ (call.op = "slice_by_mask" /\ Len(input.arg) = Len(input.self)) =>
       /\ call.status = "ok"
       /\ Len(call.out) = TrueCount(input.arg, Len(input.arg))
       /\ \A p \in 1..Len(input.arg) :
            input.arg[p] => call.out[TrueCount(input.arg, p)] = input.self[p]
  /\ call.op \in {"slice_by_indices", "slice_by_mask"} =>
       /\ coll.A = input.self
       /\ Len(heap) = Len(input.self)
       /\ \A r \in 1..Len(heap) : DeepVal(heap, lists, r) = [tag |-> r, class_id |-> <<>>]

\* C3 as claimed: slice_by_mask raises whenever the mask is not as long as
\* the collection.
C3_MaskLengthMismatchRaises ==
  (call.op = "slice_by_mask" /\ Len(input.arg) # Len(input.self)) =>
    call.status # "ok"

\* C7 as claimed: slice_by_indices fails exactly when some index is not one
\* of the 0-based positions 0..len-1, and otherwise returns len(idx) records,
\* the j-th being the record at position idx[j]; slice_by_mask with a mask of
\* the collection's length returns the records at its true positions in
\* order; the source is unchanged.
C7_SlicesAsClaimed ==
  /\ call.op = "slice_by_indices" =>
       LET n == Len(input.self)
           idx == input.arg
       IN /\ call.status = "IndexError" <=>
               \E j \in 1..Len(idx) : ~(0 <= idx[j] /\ idx[j] < n)
          /\ call.status = "ok" =>
               /\ Len(call.out) = Len(idx)
               /\ \A j \in 1..Len(idx) : call.out[j] = input.self[idx[j] + 1]
  /\ C7_MaskAndSource

\* C7 as amended: slice_by_indices fails exactly when some index i is outside
\* -len..len-1; otherwise it returns len(idx) records, the j-th being the
\* record at position idx[j] when idx[j] >= 0 and at position len + idx[j]
\* when idx[j] < 0.  The rest as claimed.
C7_SlicesWithNegativeIndices ==
  /\ call.op = "slice_by_indices" =>
       LET n == Len(input.self)
           idx == input.arg
       IN /\ call.status \in {"ok", "IndexError"}
          /\ call.status = "IndexError" <=>
               \E j \in 1..Len(idx) : ~(0 - n <= idx[j] /\ idx[j] < n)
          /\ call.status = "ok" =>
               /\ Len(call.out) = Len(idx)
               /\ \A j \in 1..Len(idx) :
                    call.out[j] = input.self[IF idx[j] >= 0 THEN idx[j] + 1
                                             ELSE n + idx[j] + 1]
  /\ C7_MaskAndSource

\* C7 witness: a slice by indices with a repeat, a reordering and a negative
\* index has succeeded
C7_Witness ==
  /\ call.op = "slice_by_indices"
  /\ call.status = "ok"
  /\ input.arg = <<1, 1, -2>>
  /\ call.out = <<2, 2, 1>>

----------------------------------------------------------------------------
(* DetectionList: majority class *)

\* number of entries of xs equal to v
Count(xs, v) == Cardinality({p \in 1..Len(xs) : xs[p] = v})

\* the elements of the finite set S of integers, ascending
RECURSIVE Ascending(_)
Ascending(S) ==
  IF S = {} THEN <<>>
  ELSE LET m == CHOOSE x \in S : \A y \in S : x <= y
       IN <<m>> \o Ascending(S \ {m})

\* np.unique(xs, return_counts=True): the distinct values sorted ascending,
\* and how often each occurs
np_unique(xs) ==
  LET values == Ascending(Range(xs))
  IN [values |-> values,
      counts |-> [k \in 1..Len(values) |-> Count(xs, values[k])]]

\* np.argmax taking the last of several maxima
np_argmax_last(counts) ==
  CHOOSE k \in 1..Len(counts) :
    /\ \A j \in 1..Len(counts) : counts[j] <= counts[k]
    /\ \A j \in (k + 1)..Len(counts) : counts[j] < counts[k]

\* np.argmax(counts) of a non-empty array: the first position of the maximum
\* (1-based here)
np_argmax(counts) ==
  CHOOSE k \in 1..Len(counts) :
    /\ \A j \in 1..Len(counts) : counts[j] <= counts[k]
    /\ \A j \in 1..(k - 1) : counts[j] < counts[k]

\* the loop of get_most_common_class from record i on, classes so far given.
\* d['class_id'] raises KeyError on a record without the key; np.argmax
\* raises ValueError on the empty counts of an empty class_id.
RECURSIVE MostCommonFrom(_, _, _, _, _)
MostCommonFrom(h, l, self, i, classes) ==
  IF i > Len(self) THEN [status |-> "ok", out |-> classes]
  ELSE LET d == h[self[i]]
       IN IF "class_id" \notin DOMAIN d THEN [status |-> "KeyError", out |-> <<>>]
          ELSE LET u == np_unique(l[d.class_id])
               IN IF u.counts = <<>> THEN [status |-> "ValueError", out |-> <<>>]
                  ELSE MostCommonFrom(h, l, self, i + 1,
                                      Append(classes, u.values[np_argmax(u.counts)]))

get_most_common_class(h, l, self) == MostCommonFrom(h, l, self, 1, <<>>)

----------------------------------------------------------------------------
(* The voting specification: a collection whose records hold drawn votes,  *)
(* and one call of get_most_common_class.                                  *)

\* n records; the votes of record i are flat[cut[i-1]+1 .. cut[i]]
InitVoteWith(n, flat, cut) ==
  /\ heap = [r \in 1..n |-> [tag |-> r, class_id |-> r]]
  /\ lists = [r \in 1..n |-> SubSeq(flat, (IF r = 1 THEN 0 ELSE cut[r - 1]) + 1, cut[r])]
  /\ coll = [A |-> [i \in 1..n |-> i], B |-> <<>>]
  /\ C = <<>>
  /\ cmeta = NoMeta
  /\ ser = <<>>
  /\ input = <<>>
  /\ call = NoCall

InitVote ==
  \E n \in 0..MaxLen, flat \in SeqUpTo(Classes, MaxVotes) :
    \E cut \in [1..n -> 0..Len(flat)] :
      /\ \A r \in 1..(n - 1) : cut[r] <= cut[r + 1]
      /\ IF n = 0 THEN flat = <<>> ELSE cut[n] = Len(flat)
      /\ InitVoteWith(n, flat, cut)

\* coll.A.get_most_common_class()
GetMostCommonClass ==
  /\ call.op = "none"
  /\ LET r == get_most_common_class(heap, lists, coll.A)
     IN call' = [NoCall EXCEPT !.op = "get_most_common_class", !.self = "A",
                               !.status = r.status, !.out = r.out]
  /\ UNCHANGED <<heap, lists, coll, C, cmeta, ser, input>>

NextVote == GetMostCommonClass

SpecVote == InitVote /\ [][NextVote]_vars

\* the votes of the i-th record of coll.A
VotesOf(i) == lists[heap[coll.A[i]].class_id]

\* C8: get_most_common_class fails iff some record has no vote; otherwise it
\* returns one class per record in collection order, a class no other class
\* of the record outvotes, and the smallest of those with as many votes.
C8_MajoritySmallestOnTie ==
  call.op = "get_most_common_class" =>
    /\ call.status # "ok" <=> \E i \in 1..Len(coll.A) : VotesOf(i) = <<>>
    /\ call.status = "ok" =>
         /\ Len(call.out) = Len(coll.A)
         /\ \A i \in 1..Len(coll.A) :
              /\ call.out[i] \in Range(VotesOf(i))
              /\ \A c \in Classes :
                   /\ Count(VotesOf(i), c) <= Count(VotesOf(i), call.out[i])
                   /\ Count(VotesOf(i), c) = Count(VotesOf(i), call.out[i]) =>
                        call.out[i] <= c

\* C8 witness: votes 3,2,3,2,1 (2 and 3 tie above 1) gave class 2
C8_Witness ==
  /\ call.op = "get_most_common_class"
  /\ Len(coll.A) = 1
  /\ VotesOf(1) = <<3, 2, 3, 2, 1>>
  /\ call.out = <<2>>

----------------------------------------------------------------------------
(* DetectionList: instance colours.  A colour is a triple: an RGB value    *)
(* <<"rgb", r, g>> or the colour <<"turbo", i, m>> the turbo map gives the *)
(* fraction i/m.  Space is modelled as a line: a point is an integer, a    *)
(* point cloud is [points, colors] with one colour per point, and a        *)
(* bounding box is the interval [lo, hi] with its display colour.          *)

\* d['pcd'].paint_uniform_color(c); d['bbox'].color = c
Paint(d, c) ==
  [d EXCEPT !.pcd.colors = [p \in 1..Len(d.pcd.points) |-> c], !.bbox.color = c]

\* cmap(np.linspace(0, 1, n))[i, :3] for the 0-based position i of n
TurboColor(i, n) == IF n = 1 THEN <<"turbo", 0, 1>> ELSE <<"turbo", i, n - 1>>

\* for d in self: paint d with d['inst_color'], from position i on.
\* d['inst_color'] raises KeyError on a record without the key; the records
\* before it stay painted.
RECURSIVE PaintOwnFrom(_, _, _)
PaintOwnFrom(h, self, i) ==
  IF i > Len(self) THEN [status |-> "ok", heap |-> h]
  ELSE LET d == h[self[i]]
       IN IF "inst_color" \notin DOMAIN d THEN [status |-> "KeyError", heap |-> h]
          ELSE PaintOwnFrom([h EXCEPT ![self[i]] = Paint(d, d.inst_color)], self, i + 1)

\* for i in range(len(self)): paint self[i] with instance_colors[i]
RECURSIVE PaintGeneratedFrom(_, _, _)
PaintGeneratedFrom(h, self, i) ==
  IF i > Len(self) THEN [status |-> "ok", heap |-> h]
  ELSE PaintGeneratedFrom(
         [h EXCEPT ![self[i]] = Paint(h[self[i]], TurboColor(i - 1, Len(self)))],
         self, i + 1)

color_by_instance(h, self) ==
  IF Len(self) = 0 THEN [status |-> "ok", heap |-> h]
  ELSE IF "inst_color" \in DOMAIN h[self[1]] THEN PaintOwnFrom(h, self, 1)
  ELSE PaintGeneratedFrom(h, self, 1)

----------------------------------------------------------------------------
(* The colouring specification: a collection of unpainted records, some of *)
(* which the caller gives an inst_color, and color_by_instance.            *)

\* the geometry of a record nothing has painted yet
NewCloud == [points |-> <<3, 5>>, colors |-> <<Unpainted, Unpainted>>]
NewBox == [lo |-> 3, hi |-> 5, color |-> Unpainted]

InitColor ==
  \E n \in 0..MaxLen :
    /\ heap = [r \in 1..n |-> [tag |-> r, pcd |-> NewCloud, bbox |-> NewBox]]
    /\ lists = <<>>
    /\ coll = [A |-> [i \in 1..n |-> i], B |-> <<>>]
    /\ C = <<>>
    /\ cmeta = NoMeta
    /\ ser = <<>>
    /\ input = <<>>
    /\ call = NoCall

\* coll.A[i]['inst_color'] = c
SetInstColor(i, c) ==
  /\ i \in 1..Len(coll.A)
  /\ heap' = [heap EXCEPT ![coll.A[i]] = ("inst_color" :> c) @@ @]
  /\ call' = [NoCall EXCEPT !.op = "set_inst_color"]
  /\ UNCHANGED <<lists, coll, C, cmeta, ser, input>>

\* coll.A.color_by_instance()
ColorByInstance ==
  /\ LET r == color_by_instance(heap, coll.A)
     IN /\ heap' = r.heap
        /\ call' = [NoCall EXCEPT !.op = "color_by_instance", !.self = "A",
                                  !.status = r.status, !.out = heap]
  /\ UNCHANGED <<lists, coll, C, cmeta, ser, input>>

NextColor ==
  \/ \E i \in 1..MaxLen, c \in InstColors : SetInstColor(i, c)
  \/ ColorByInstance

SpecColor == InitColor /\ [][NextColor]_vars

\* the i-th record of coll.A, now and before the last call
Rec(i) == heap[coll.A[i]]
RecBefore(i) == call.out[coll.A[i]]

\* C9 as claimed: color_by_instance never raises; with inst_color on every
\* record each record is painted with its own; with inst_color missing on
\* at least one record, wherever it is, every record is painted with the
\* generated colour of its position; inst_color fields are as before.
C9_InstanceColorsAsClaimed ==
  call.op = "color_by_instance" =>
    LET n == Len(coll.A)
        all == \A i \in 1..n : "inst_color" \in DOMAIN RecBefore(i)
    IN /\ call.status = "ok"
       /\ \A i \in 1..n :
            /\ DOMAIN Rec(i) = DOMAIN RecBefore(i)
            /\ "inst_color" \in DOMAIN Rec(i) => Rec(i).inst_color = RecBefore(i).inst_color
            /\ Rec(i).pcd.points = RecBefore(i).pcd.points
            /\ \A p \in 1..Len(Rec(i).pcd.points) :
                 Rec(i).pcd.colors[p] = Rec(i).bbox.color
            /\ Rec(i).bbox.color = IF all THEN RecBefore(i).inst_color
                                   ELSE TurboColor(i - 1, n)

----------------------------------------------------------------------------
(* Arrays.  A numeric value is [kind, data]: kind "tensor" (torch.Tensor), *)
(* "ndarray" (np.ndarray), "obb" or "aabb" (an open3d bounding box, data   *)
(* its corner points) or "list" (a plain Python list); data is its         *)
(* content.                                                                *)

\* to_numpy: an ndarray is returned as it is; of anything else
\* .detach().cpu().numpy() is called, which only a tensor has
to_numpy(v) ==
  IF v.kind = "ndarray" THEN [status |-> "ok", out |-> v]
  ELSE IF v.kind = "tensor" THEN [status |-> "ok", out |-> [v EXCEPT !.kind = "ndarray"]]
  ELSE [status |-> "AttributeError", out |-> v]

\* to_tensor with device None: a tensor is returned as it is; anything else
\* goes to torch.from_numpy, which takes an ndarray only
to_tensor(v) ==
  IF v.kind = "tensor" THEN [status |-> "ok", out |-> v]
  ELSE IF v.kind = "ndarray" THEN [status |-> "ok", out |-> [v EXCEPT !.kind = "tensor"]]
  ELSE [status |-> "TypeError", out |-> v]

\* the loop of get_stacked_values_torch (idx None) from record i on:
\* detection[key] raises KeyError; a bounding box becomes the ndarray of its
\* corner points; an ndarray becomes a tensor; anything else is kept
RECURSIVE StackedFrom(_, _, _, _, _)
StackedFrom(h, self, key, i, values) ==
  IF i > Len(self) THEN [status |-> "ok", out |-> values]
  ELSE IF key \notin DOMAIN h[self[i]] THEN [status |-> "KeyError", out |-> <<>>]
  ELSE LET v0 == h[self[i]][key]
           v1 == IF v0.kind \in {"obb", "aabb"} THEN [v0 EXCEPT !.kind = "ndarray"] ELSE v0
           v2 == IF v1.kind = "ndarray" THEN [v1 EXCEPT !.kind = "tensor"] ELSE v1
       IN StackedFrom(h, self, key, i + 1, Append(values, v2))

\* torch.stack(values, dim=0): RuntimeError on an empty list and on tensors
\* of different sizes, TypeError on an entry that is no tensor; the rows of
\* the result are the entries
torch_stack(values) ==
  IF values = <<>> THEN [status |-> "RuntimeError", out |-> <<>>]
  ELSE IF \E k \in 1..Len(values) : values[k].kind # "tensor"
  THEN [status |-> "TypeError", out |-> <<>>]
  ELSE IF \E k \in 1..Len(values) : Len(values[k].data) # Len(values[1].data)
  THEN [status |-> "RuntimeError", out |-> <<>>]
  ELSE [status |-> "ok", out |-> [k \in 1..Len(values) |-> values[k].data]]

get_stacked_values_torch(h, self, key) ==
  LET vs == StackedFrom(h, self, key, 1, <<>>)
  IN IF vs.status # "ok" THEN vs ELSE torch_stack(vs.out)

\* dot product of two vectors of one length
RECURSIVE Dot(_, _)
Dot(a, b) ==
  IF a = <<>> THEN 0
  ELSE a[Len(a)] * b[Len(b)] + Dot(SubSeq(a, 1, Len(a) - 1), SubSeq(b, 1, Len(b) - 1))

\* the cosine of q and d as the exact triple <<q.d, q.q, d.d>>
Cosine(q, d) == <<Dot(q, d), Dot(q, q), Dot(d, d)>>

\* F.cosine_similarity(q.unsqueeze(0), features), dim 1: one value per row;
\* RuntimeError when the row length (2 or 3 here) is not that of q
cosine_similarity(q, features) ==
  IF \E k \in 1..Len(features) : Len(features[k]) # Len(q)
  THEN [status |-> "RuntimeError", out |-> <<>>]
  ELSE [status |-> "ok", out |-> [k \in 1..Len(features) |-> Cosine(q, features[k])]]

compute_similarities(h, self, new_features) ==
  LET q == to_tensor(new_features)
      features == get_stacked_values_torch(h, self, "descriptor")
  IN IF q.status # "ok" THEN [status |-> q.status, out |-> <<>>]
     ELSE IF features.status # "ok" THEN [status |-> features.status, out |-> <<>>]
     ELSE cosine_similarity(q.out.data, features.out)

----------------------------------------------------------------------------
(* The similarity specification: a collection of records with descriptors  *)
(* and a query are drawn, and compute_similarities is called.              *)

DescriptorValues == [kind : {"tensor", "ndarray"}, data : Vectors]
QueryValues == [kind : {"tensor", "ndarray", "list"}, data : Vectors]

InitSim ==
  \E n \in 0..MaxLen :
    \E ds \in [1..n -> DescriptorValues], q \in QueryValues :
      /\ heap = [r \in 1..n |-> [tag |-> r, descriptor |-> ds[r]]]
      /\ lists = <<>>
      /\ coll = [A |-> [i \in 1..n |-> i], B |-> <<>>]
      /\ C = <<>>
      /\ cmeta = NoMeta
      /\ ser = <<>>
      /\ input = q
      /\ call = NoCall

\* coll.A.compute_similarities(input)
ComputeSimilarities ==
  /\ call.op = "none"
  /\ LET r == compute_similarities(heap, coll.A, input)
     IN call' = [NoCall EXCEPT !.op = "compute_similarities", !.self = "A",
                               !.status = r.status, !.out = r.out]
  /\ UNCHANGED <<heap, lists, coll, C, cmeta, ser, input>>

NextSim == ComputeSimilarities

SpecSim == InitSim /\ [][NextSim]_vars

\* C6 as claimed: for a query that is a tensor or an ndarray and a
\* collection of any length N >= 0 whose descriptors have the query's
\* length, compute_similarities returns N scores, the i-th that of the i-th
\* record; for N = 0 it returns the empty result.
C6_OneScorePerRecord ==
  (/\ call.op = "compute_similarities"
   /\ input.kind \in {"tensor", "ndarray"}
   /\ \A i \in 1..Len(coll.A) : Len(heap[coll.A[i]].descriptor.data) = Len(input.data)) =>
    /\ call.status = "ok"
    /\ Len(call.out) = Len(coll.A)
    /\ \A i \in 1..Len(coll.A) :
         call.out[i] = Cosine(input.data, heap[coll.A[i]].descriptor.data)

----------------------------------------------------------------------------
(* MapObjectList: serialisation.  An 'id' value is [kind, data]: kind      *)
(* "set" (data its elements ascending), "list" (data its elements), "int"  *)
(* (a number, not iterable) or "list_of_lists" (a list whose elements are  *)
(* lists, which cannot be members of a set).                               *)

\* s in reverse order
Reverse(s) == [k \in 1..Len(s) |-> s[Len(s) + 1 - k]]

\* list(v).  The order in which a set is iterated is the interpreter's: ord
\* chooses it.
py_list(v, ord) ==
  IF v.kind = "set"
  THEN [status |-> "ok",
        out |-> [kind |-> "list", data |-> IF ord = "asc" THEN v.data ELSE Reverse(v.data)]]
  ELSE IF v.kind \in {"list", "list_of_lists"} THEN [status |-> "ok", out |-> v]
  ELSE [status |-> "TypeError", out |-> v]

\* set(v)
py_set(v) ==
  IF v.kind = "set" THEN [status |-> "ok", out |-> v]
  ELSE IF v.kind = "list"
  THEN [status |-> "ok", out |-> [kind |-> "set", data |-> Ascending(Range(v.data))]]
  ELSE [status |-> "TypeError", out |-> v]

\* dict d without the keys ks
Without(d, ks) == [k \in DOMAIN d \ ks |-> d[k]]

\* try: d[key] = conv(d[key]) except: logger.warning(...), given the outcome
\* of conv(d[key]); with the key missing, d[key] raises KeyError inside the
\* try and d stays as it is
TryConvert(d, key, converted) ==
  IF key \in DOMAIN d /\ converted.status = "ok"
  THEN [d EXCEPT ![key] = converted.out]
  ELSE d

\* the outcome of reading d[key] when d has no such key
NoValue == [status |-> "KeyError", out |-> <<>>]

\* to_serializable with both conversions in one try: a descriptor that
\* fails to convert leaves the id unconverted as well
SerializeRecord_one_try(obj, ord) ==
  LET conv == IF "descriptor" \in DOMAIN obj THEN to_numpy(obj.descriptor) ELSE NoValue
      d1 == TryConvert(obj, "descriptor", conv)
      d2 == IF conv.status # "ok" THEN d1
            ELSE TryConvert(d1, "id",
                   IF "id" \in DOMAIN d1 THEN py_list(d1.id, ord) ELSE NoValue)
  IN IF {"pcd", "bbox"} \subseteq DOMAIN d2
     THEN [status |-> "ok", out |-> Without(d2, {"pcd", "bbox"})]
     ELSE [status |-> "KeyError", out |-> d2]

\* the body of the loop of to_serializable for the record obj (a deep copy):
\* the two conversions, then del s_obj_dict['pcd'], del s_obj_dict['bbox']
SerializeRecord(obj, ord) ==
  LET d1 == TryConvert(obj, "descriptor",
              IF "descriptor" \in DOMAIN obj THEN to_numpy(obj.descriptor) ELSE NoValue)
      d2 == TryConvert(d1, "id",
              IF "id" \in DOMAIN d1 THEN py_list(d1.id, ord) ELSE NoValue)
  IN IF {"pcd", "bbox"} \subseteq DOMAIN d2
     THEN [status |-> "ok", out |-> Without(d2, {"pcd", "bbox"})]
     ELSE [status |-> "KeyError", out |-> d2]

RECURSIVE SerializeFrom(_, _, _, _, _, _)
SerializeFrom(h, l, self, ord, i, s_obj_list) ==
  IF i > Len(self) THEN [status |-> "ok", out |-> s_obj_list]
  ELSE LET r == SerializeRecord(DeepVal(h, l, self[i]), ord)
       IN IF r.status # "ok" THEN [status |-> r.status, out |-> <<>>]
          ELSE SerializeFrom(h, l, self, ord, i + 1, Append(s_obj_list, r.out))

to_serializable(h, l, self, ord) == SerializeFrom(h, l, self, ord, 1, <<>>)

\* o3d.geometry.OrientedBoundingBox.create_from_points: the smallest box
\* around the points; it fails on points that span no volume
create_from_points(pts) ==
  IF Cardinality(Range(pts)) < 2 THEN [status |-> "RuntimeError", out |-> <<>>]
  ELSE [status |-> "ok",
        out |-> [lo |-> CHOOSE x \in Range(pts) : \A y \in Range(pts) : x <= y,
                 hi |-> CHOOSE x \in Range(pts) : \A y \in Range(pts) : x >= y,
                 color |-> Unpainted]]

\* bbox.get_box_points()
get_box_points(bbox) == <<bbox.lo, bbox.hi>>

\* the body of the loop of load_serializable for the dict s (a deep copy)
LoadRecord(s) ==
  IF "pcd_np" \notin DOMAIN s THEN [status |-> "KeyError", out |-> s]
  ELSE IF "bbox_np" \notin DOMAIN s THEN [status |-> "KeyError", out |-> s]
  ELSE LET box == create_from_points(s.bbox_np)
       IN IF box.status # "ok" THEN [status |-> box.status, out |-> s]
          ELSE IF "pcd_color_np" \notin DOMAIN s THEN [status |-> "KeyError", out |-> s]
          ELSE IF s.pcd_color_np = <<>> THEN [status |-> "IndexError", out |-> s]
          ELSE LET d0 == ("pcd" :> [points |-> s.pcd_np, colors |-> s.pcd_color_np])
                         @@ ("bbox" :> [box.out EXCEPT !.color = s.pcd_color_np[1]])
                         @@ s
                   d1 == TryConvert(d0, "descriptor",
                           IF "descriptor" \in DOMAIN d0 THEN to_tensor(d0.descriptor)
                           ELSE NoValue)
                   d2 == TryConvert(d1, "id",
                           IF "id" \in DOMAIN d1 THEN py_set(d1.id) ELSE NoValue)
               IN [status |-> "ok",
                   out |-> Without(d2, {"pcd_np", "bbox_np", "pcd_color_np"})]

\* the loop of load_serializable from input record i on: every record built
\* is appended to self at once, so a record that raises leaves the ones
\* before it in self
RECURSIVE LoadFrom(_, _, _, _)
LoadFrom(h, self, s_obj_list, i) ==
  IF i > Len(s_obj_list) THEN [status |-> "ok", heap |-> h, self |-> self]
  ELSE LET r == LoadRecord(s_obj_list[i])
       IN IF r.status # "ok" THEN [status |-> r.status, heap |-> h, self |-> self]
          ELSE LoadFrom(Append(h, r.out), Append(self, Len(h) + 1), s_obj_list, i + 1)

\* load_serializable without its assert
load_unchecked(h, self, s_obj_list) == LoadFrom(h, self, s_obj_list, 1)

\* assert len(self) == 0, then the loop
load_serializable(h, self, s_obj_list) ==
  IF Len(self) # 0 THEN [status |-> "AssertionError", heap |-> h, self |-> self]
  ELSE LoadFrom(h, self, s_obj_list, 1)

----------------------------------------------------------------------------
(* The serialisation specification: either coll.A is a drawn collection of *)
(* live records, or the caller holds a drawn list of serialised dicts;     *)
(* coll.A is serialised, and the last output or the caller's list is       *)
(* loaded into coll.A or coll.B.                                           *)

CloudColor == <<"rgb", 1, 0>>
BoxColor == <<"rgb", 0, 1>>

LiveRecords ==
  [tag : {0},
   descriptor : [kind : {"tensor", "ndarray", "list"}, data : {<<1, 0>>}],
   id : {[kind |-> "set", data |-> <<1, 2>>], [kind |-> "int", data |-> <<7>>]},
   pcd : {[points |-> <<3, 5>>, colors |-> <<CloudColor, CloudColor>>]},
   bbox : {[lo |-> 3, hi |-> 5, color |-> BoxColor]}]

SerializedRecords ==
  [tag : {0},
   descriptor : [kind : {"tensor", "ndarray", "list"}, data : {<<1, 0>>}],
   id : {[kind |-> "list", data |-> <<2, 1, 2>>], [kind |-> "int", data |-> <<7>>],
         [kind |-> "list_of_lists", data |-> <<1, 2>>]},
   pcd_np : {<<3, 5>>},
   bbox_np : {<<3, 5>>},
   pcd_color_np : {<<CloudColor, CloudColor>>, <<>>}]

InitSerWith(recs, s_obj_list) ==
  /\ heap = recs
  /\ lists = <<>>
  /\ coll = [A |-> [i \in 1..Len(recs) |-> i], B |-> <<>>]
  /\ C = <<>>
  /\ cmeta = NoMeta
  /\ ser = <<>>
  /\ input = s_obj_list
  /\ call = NoCall

InitSer ==
  \/ \E recs \in SeqUpTo(LiveRecords, MaxLen) : InitSerWith(recs, <<>>)
  \/ \E s_obj_list \in SeqUpTo(SerializedRecords, MaxLen) : InitSerWith(<<>>, s_obj_list)

\* ser = coll.A.to_serializable()
ToSerializable(ord) ==
  /\ LET r == to_serializable(heap, lists, coll.A, ord)
     IN /\ ser' = IF r.status = "ok" THEN r.out ELSE ser
        /\ call' = [NoCall EXCEPT !.op = "to_serializable", !.self = "A",
                                  !.status = r.status]
  /\ UNCHANGED <<heap, lists, coll, C, cmeta, input>>

\* coll[x].load_serializable(s), s the last output of to_serializable or the
\* caller's list
LoadSerializable(x, src) ==
  /\ LET r == load_serializable(heap, coll[x], IF src = "ser" THEN ser ELSE input)
     IN /\ heap' = r.heap
        /\ coll' = [coll EXCEPT ![x] = r.self]
        /\ call' = [NoCall EXCEPT !.op = "load_serializable", !.self = x, !.other = src,
                                  !.status = r.status]
  /\ UNCHANGED <<lists, C, cmeta, ser, input>>

NextSer ==
  \/ \E ord \in {"asc", "desc"} : ToSerializable(ord)
  \/ \E x \in Names, src \in {"ser", "input"} : LoadSerializable(x, src)

SpecSer == InitSer /\ [][NextSer]_vars

\* the serialised dict s has what load_serializable reads without a try
Loadable(s) ==
  /\ {"pcd_np", "bbox_np", "pcd_color_np"} \subseteq DOMAIN s
  /\ Cardinality(Range(s.bbox_np)) >= 2
  /\ s.pcd_color_np # <<>>

\* C4: load_serializable on a collection that holds a record fails at its
\* assert, whatever the input, and the collection, its records and every
\* other object stay as they were.
C4_LoadOnNonEmptyFails ==
  [][ (call'.op = "load_serializable" /\ Len(coll[call'.self]) > 0) =>
        /\ call'.status = "AssertionError"
        /\ coll' = coll
        /\ heap' = heap
        /\ lists' = lists
    ]_vars

\* C4 witness: coll.B holds records and a load of two loadable dicts into it
\* has failed
C4_Witness ==
  /\ call.op = "load_serializable" /\ call.self = "B" /\ call.other = "input"
  /\ call.status = "AssertionError"
  /\ Len(coll.B) >= 1
  /\ Len(input) = 2 /\ Loadable(input[1]) /\ Loadable(input[2])

\* the live record r has a descriptor that is an array and an id that is a set
ValidRecord(r) ==
  /\ r.descriptor.kind \in {"tensor", "ndarray"}
  /\ r.id.kind = "set"
  /\ r.pcd.points # <<>>

\* C5 as claimed: the output of to_serializable on a non-empty collection of
\* valid records holds pcd_np, bbox_np and pcd_color_np in place of pcd and
\* bbox in every record, and loading it into the empty coll.B succeeds and
\* gives as many records, in order, with the descriptor values, id sets,
\* point counts and corner points of coll.A's.
C5_RoundTripAsClaimed ==
  (/\ coll.A # <<>>
   /\ \A i \in 1..Len(coll.A) : ValidRecord(heap[coll.A[i]])) =>
    /\ call.op = "to_serializable" =>
         /\ call.status = "ok"
         /\ Len(ser) = Len(coll.A)
         /\ \A i \in 1..Len(ser) :
              /\ {"pcd_np", "bbox_np", "pcd_color_np"} \subseteq DOMAIN ser[i]
              /\ DOMAIN ser[i] \cap {"pcd", "bbox"} = {}
    /\ (/\ call.op = "load_serializable" /\ call.self = "B" /\ call.other = "ser"
        /\ ser # <<>>
        /\ call.status # "AssertionError") =>
         /\ call.status = "ok"
         /\ Len(coll.B) = Len(coll.A)
         /\ \A i \in 1..Len(coll.A) :
              LET a == heap[coll.A[i]]
                  b == heap[coll.B[i]]
              IN /\ b.descriptor.data = a.descriptor.data
                 /\ b.id.kind = "set" /\ b.id.data = a.id.data
                 /\ Len(b.pcd.points) = Len(a.pcd.points)
                 /\ get_box_points(b.bbox) = get_box_points(a.bbox)

\* C10: to_serializable on records that hold pcd and bbox, and
\* load_serializable of loadable dicts into an empty collection, do not
\* raise and give one record per input record, in order; in each, a
\* descriptor or an id that cannot be converted is as it was in the input,
\* and the other one is converted all the same.
C10_ConversionFailuresAreLocal ==
  [][ /\ (/\ call'.op = "to_serializable"
          /\ \A i \in 1..Len(coll.A) : {"pcd", "bbox"} \subseteq DOMAIN heap[coll.A[i]]) =>
           /\ call'.status = "ok"
           /\ Len(ser') = Len(coll.A)
           /\ \A i \in 1..Len(coll.A) :
                LET o == heap[coll.A[i]]
                    s == ser'[i]
                IN /\ DOMAIN s = DOMAIN o \ {"pcd", "bbox"}
                   /\ s.tag = o.tag
                   /\ s.descriptor.data = o.descriptor.data
                   /\ s.descriptor.kind =
                        IF o.descriptor.kind = "list" THEN "list" ELSE "ndarray"
                   /\ IF o.id.kind = "set"
                      THEN /\ s.id.kind = "list"
                           /\ Len(s.id.data) = Len(o.id.data)
                           /\ Range(s.id.data) = Range(o.id.data)
                      ELSE s.id = o.id
      /\ LET x == call'.self
             s_obj_list == IF call'.other = "ser" THEN ser ELSE input
         IN (/\ call'.op = "load_serializable"
             /\ coll[x] = <<>>
             /\ \A i \in 1..Len(s_obj_list) : Loadable(s_obj_list[i])) =>
              /\ call'.status = "ok"
              /\ Len(coll'[x]) = Len(s_obj_list)
              /\ \A i \in 1..Len(s_obj_list) :
                   LET s == s_obj_list[i]
                       o == heap'[coll'[x][i]]
                   IN /\ DOMAIN o = (DOMAIN s \ {"pcd_np", "bbox_np", "pcd_color_np"})
                                      \cup {"pcd", "bbox"}
                      /\ o.tag = s.tag
                      /\ o.descriptor.data = s.descriptor.data
                      /\ o.descriptor.kind =
                           IF s.descriptor.kind = "list" THEN "list" ELSE "tensor"
                      /\ IF s.id.kind \in {"set", "list"}
                         THEN /\ o.id.kind = "set"
                              /\ Range(o.id.data) = Range(s.id.data)
                         ELSE o.id = s.id
    ]_vars

\* C10 witness: to_serializable has returned two dicts; in the first the
\* descriptor could not be converted and the id was; in the second the id
\* could not be converted and the descriptor was
C10_Witness ==
  /\ call.op = "to_serializable" /\ call.status = "ok"
  /\ Len(ser) = 2
  /\ heap[coll.A[1]].descriptor.kind = "list" /\ ser[1].descriptor.kind = "list"
  /\ heap[coll.A[1]].id.kind = "set" /\ ser[1].id.kind = "list"
  /\ heap[coll.A[2]].id.kind = "int" /\ ser[2].id.kind = "int"
  /\ heap[coll.A[2]].descriptor.kind = "tensor" /\ ser[2].descriptor.kind = "ndarray"

====
